---- MODULE Spec2Model ----
(***************************************************************************)
(* Weather Forecast (src/main.py): a batch script that loads two JSON      *)
(* configuration files, fetches one forecast payload per configured        *)
(* location and writes an hourly and a daily report file per location.     *)
(*                                                                         *)
(* The script is straight-line code; the model follows it with a program   *)
(* counter.  Times are whole seconds since the epoch.  Temperatures and    *)
(* wind speeds are held in tenths of a unit (105 is 10.5), so that         *)
(* Python's round() is computed exactly.  Python lists are 0-indexed,      *)
(* TLA+ sequences 1-indexed: At(s, i) is Python's s[i].                    *)
(***************************************************************************)
EXTENDS Integers, Sequences, FiniteSets

VARIABLES
    pc,                      \* position in the script
    error,                   \* the uncaught exception that ended the run, or "none"
    now,                     \* the instant (UTC epoch seconds) the host clock shows
    console,                 \* what print() has written
    api_file, locations_file,\* contents of api_data.json and locations_data.json
    SYSTEM_TIME_UTC_OFFSET,  \* main.py:85-90
    start_time, finish_time, \* main.py:98, 247
    api_id, locations,       \* main.py:103, 108
    file_name_prefix,        \* main.py:113
    k,                       \* index of the location the for loop is at
    gets,                    \* the GET requests issued so far
    response,                \* main.py:128: the last response received
    api_data,                \* main.py:131
    files_generated_time,    \* main.py:137
    UTC_hours_literal,       \* main.py:140-143
    files,                   \* file name -> lines written (the disk)
    f,                       \* name of the file the with block has open
    rain_or_snow_predicted, min_temp, max_temp,   \* main.py:154-156
    i                        \* loop index of the hourly / daily loop

vars == <<pc, error, now, console, api_file, locations_file,
          SYSTEM_TIME_UTC_OFFSET, start_time, finish_time, api_id, locations,
          file_name_prefix, k, gets, response, api_data,
          files_generated_time, UTC_hours_literal, files, f,
          rain_or_snow_predicted, min_temp, max_temp, i>>

(***************************************************************************)
(* Program constants                                                       *)
(***************************************************************************)
HOURS == 48
DAYS == 8
CET_OFFSET == 3600
DST_SHIFT == 3600
SECONDS_PER_HOUR == 3600
PRECIPITATION_LIMIT == 700
SECONDS_PER_DAY == 86400

(***************************************************************************)
(* Bounds of the model                                                     *)
(***************************************************************************)
\* a payload may carry up to this many samples more than the script reads
MaxExtra == 1
\* a short payload lacks up to this many of the samples the script reads
MaxShort == 1
\* seconds the blocking GET takes on the host clock
FetchSeconds == 2

NoFile == <<>>
Unset == "unset"

(***************************************************************************)
(* Python helpers                                                          *)
(***************************************************************************)
At(s, idx) == s[idx + 1]

abs(x) == IF x < 0 THEN -x ELSE x

\* Python 3 round(n / d) for d > 0: nearest integer, ties to the even one.
round(n, d) ==
    LET q == n \div d
        r == n % d
    IN  IF 2 * r < d THEN q
        ELSE IF 2 * r > d THEN q + 1
        ELSE IF q % 2 = 0 THEN q ELSE q + 1

(***************************************************************************)
(* The host: a machine on Central European Time.  Its zone rules put it    *)
(* one hour further ahead of UTC between DstBegin and DstEnd.              *)
(***************************************************************************)
DstBegin == 20 * SECONDS_PER_DAY + SECONDS_PER_HOUR
DstEnd == 230 * SECONDS_PER_DAY + SECONDS_PER_HOUR

\* time.localtime(t).tm_isdst
tm_isdst(t) == IF DstBegin <= t /\ t < DstEnd THEN 1 ELSE 0

\* the offset the host's zone rules give the instant t
HostUtcOffset(t) == CET_OFFSET + (IF tm_isdst(t) # 0 THEN DST_SHIFT ELSE 0)

\* datetime.fromtimestamp(t): the host-local wall clock at instant t,
\* as seconds since the epoch's midnight on the wall calendar
fromtimestamp(t) == t + HostUtcOffset(t)

\* datetime.now(): naive host-local wall clock
datetime_now == fromtimestamp(now)

\* strftime of a wall-clock value: the calendar day and the clock fields
strftime_date(w) == w \div SECONDS_PER_DAY
strftime_HM(w) == <<(w % SECONDS_PER_DAY) \div SECONDS_PER_HOUR,
                    (w % SECONDS_PER_HOUR) \div 60>>
strftime_datetime(w) == <<strftime_date(w)>> \o strftime_HM(w)

(***************************************************************************)
(* Inputs: the two configuration files                                     *)
(***************************************************************************)
ApiKeys == {"api_key", "owm_api_url"}
LocationKeys == {"Place", "Latitude", "Longitude", "Language"}

\* what open() + json.load() find: status "missing" (no such file),
\* "malformed" (not JSON) or "ok" with the object's keys / the list's entries
ApiFile(status, keys) == [status |-> status, keys |-> keys]
LocationsFile(status, list) == [status |-> status, list |-> list]

Entry(place, lat, lon, lang, keys) ==
    [keys |-> keys, Place |-> place, Latitude |-> lat, Longitude |-> lon,
     Language |-> lang]

Kesten == Entry("Kesten", 499, 69, "de", LocationKeys)
Graz == Entry("Graz", 471, 154, "de", LocationKeys)
NoPlace == Entry("", 471, 154, "en", LocationKeys \ {"Place"})
NoLatitude == Entry("Graz", 0, 154, "en", LocationKeys \ {"Latitude"})
NoLongitude == Entry("Graz", 471, 0, "en", LocationKeys \ {"Longitude"})
NoLanguage == Entry("Graz", 471, 154, "", LocationKeys \ {"Language"})

GoodApiFile == ApiFile("ok", ApiKeys)
ApiFiles == {GoodApiFile,
             ApiFile("ok", {"owm_api_url"}),
             ApiFile("ok", {"api_key"}),
             ApiFile("missing", {}),
             ApiFile("malformed", {})}

LocationsFiles == {LocationsFile("ok", <<>>),
                   LocationsFile("ok", <<Kesten>>),
                   LocationsFile("ok", <<Kesten, Graz>>),
                   LocationsFile("ok", <<Kesten, NoLatitude>>),
                   LocationsFile("ok", <<Kesten, NoPlace>>),
                   LocationsFile("ok", <<NoPlace>>),
                   LocationsFile("ok", <<NoLongitude>>),
                   LocationsFile("ok", <<NoLanguage>>),
                   LocationsFile("missing", <<>>),
                   LocationsFile("malformed", <<>>)}

\* the configurations a run is started with
Configurations ==
    {<<a, LocationsFile("ok", <<Kesten>>)>> : a \in ApiFiles}
        \cup {<<GoodApiFile, l>> : l \in LocationsFiles}
        \cup {<<ApiFile("ok", {"owm_api_url"}), LocationsFile("ok", <<>>)>>}

\* the instants a run is started at: in winter, in winter five and a half
\* hours before the host's clocks go forward, and in summer
StartTimes == {2 * SECONDS_PER_DAY + 37817,
               DstBegin - 5 * SECONDS_PER_HOUR - 1800,
               30 * SECONDS_PER_DAY + 80000}

(***************************************************************************)
(* Inputs: the forecast payloads the API answers with                      *)
(***************************************************************************)
TimezoneOffsets == {-12600, -3600, 0, 2700, 3600}

\* A scenario fixes the lengths of the two series, where the coldest and the
\* warmest hour lie, and which hour (if any) carries the code rainId; every
\* other hour carries dryId.  An index of -1 is no index.
Scenario(hlen, dlen, loAt, hiAt, rainAt, rainId, dryId) ==
    [hlen |-> hlen, dlen |-> dlen, loAt |-> loAt, hiAt |-> hiAt,
     rainAt |-> rainAt, rainId |-> rainId, dryId |-> dryId]

Scenarios ==
    {Scenario(HOURS, DAYS, -1, -1, -1, 0, 800),
     Scenario(HOURS, DAYS, 0, HOURS - 1, 10, 501, 800),
     Scenario(HOURS, DAYS, HOURS - 1, 10, HOURS - 1, 699, 700),
     Scenario(HOURS, DAYS, 10, 0, 0, 200, 804),
     Scenario(HOURS + MaxExtra, DAYS + MaxExtra, HOURS, 5, HOURS, 501, 700),
     Scenario(HOURS - MaxShort, DAYS, 3, 4, 2, 600, 800),
     Scenario(0, DAYS, -1, -1, -1, 0, 800),
     Scenario(HOURS, DAYS - MaxShort, 3, 4, -1, 0, 800)}

HourFloor(t) == t - (t % SECONDS_PER_HOUR)
DayFloor(t) == t - (t % SECONDS_PER_DAY)

HourlySample(sc, t, idx) ==
    LET temp == IF idx = sc.loAt THEN -25
                ELSE IF idx = sc.hiAt THEN 215 ELSE 105
        id == IF idx = sc.rainAt THEN sc.rainId ELSE sc.dryId
    IN  [dt |-> HourFloor(t) + SECONDS_PER_HOUR * idx,
         temp |-> temp,
         feels_like |-> temp - 18,
         wind_speed |-> 31 + idx,
         id |-> id,
         description |-> IF id < 700 THEN "light rain" ELSE "clear sky"]

DailySample(sc, t, idx) ==
    LET day == DayFloor(t) + SECONDS_PER_DAY * idx
    IN  [dt |-> day + 11 * SECONDS_PER_HOUR,
         sunrise |-> day + 5 * SECONDS_PER_HOUR + 240 * idx,
         sunset |-> day + 17 * SECONDS_PER_HOUR - 180 * idx,
         temp |-> [max |-> 215 - idx, min |-> -25 + idx, day |-> 185,
                   night |-> 35, eve |-> 125, morn |-> 45],
         feels_like |-> [day |-> 175, night |-> 15, eve |-> 115, morn |-> 25],
         wind_speed |-> 42 + 10 * idx,
         id |-> 800,
         description |-> "clear sky"]

Payload(tz, sc, t) ==
    [timezone_offset |-> tz,
     hourly |-> [n \in 1..sc.hlen |-> HourlySample(sc, t, n - 1)],
     daily |-> [n \in 1..sc.dlen |-> DailySample(sc, t, n - 1)]]

Payloads(t) == {Payload(tz, sc, t) : tz \in TimezoneOffsets, sc \in Scenarios}

NoPayload == [timezone_offset |-> 0, hourly |-> <<>>, daily |-> <<>>]

\* the responses a GET can bring: a status and whether the body is the
\* forecast JSON (a 304 has no body; the 401 and 500 bodies are never read)
Response(status, body) == [status |-> status, body |-> body]
NoResponse == Response(0, "none")
HttpResponses == {Response(200, "forecast"), Response(304, "none"),
                  Response(401, "none"), Response(500, "none")}

(***************************************************************************)
(* What the script writes                                                  *)
(***************************************************************************)
StartBanner == "***** Weather Forecast program is starting *****"
FinishBanner == "***** Weather Forecast program has finished *****"
Printed(text, value) == [text |-> text, value |-> value]

\* time.strftime("%H:%M:%S", time.gmtime(t))
strftime_HMS(t) == strftime_HM(t) \o <<t % 60>>

location == At(locations, k)

FileName(place, frequency) == <<file_name_prefix, place, frequency>>

\* round(api_data["timezone_offset"] / 3600)
UTC_offset_hours(tz) == round(tz, SECONDS_PER_HOUR)

\* a slip of main.py:140: the rounded hour value decides, not the offset
HoursLiteral_RoundedHours(tz) ==
    IF abs(round(tz, SECONDS_PER_HOUR)) = 1 THEN "hour" ELSE "hours"

\* main.py:140-143
HoursLiteral(tz) == IF abs(tz) = SECONDS_PER_HOUR THEN "hour" ELSE "hours"

\* main.py:150-151 and 199-200
Heading(frequency) ==
    [kind |-> "heading", place |-> location.Place, frequency |-> frequency,
     generated |-> files_generated_time,
     utc_offset |-> UTC_offset_hours(api_data.timezone_offset),
     unit |-> UTC_hours_literal]

\* main.py:162-164 and 205-215: the value handed to datetime.fromtimestamp
LocationTime(t, tz, offset) == (t + tz) - offset

\* round(wind_speed / 1000 * 3600), the speed held in tenths of a m/s
WindKph(w) == round(w * 36, 100)

\* round(temp), the temperature held in tenths of a degree
RoundTemp(t) == round(t, 10)

\* main.py:162-173
HourlyBlock(h, tz, offset) ==
    [kind |-> "hour",
     print_time |-> strftime_datetime(fromtimestamp(LocationTime(h.dt, tz, offset))),
     temp |-> RoundTemp(h.temp),
     feels_like |-> RoundTemp(h.feels_like),
     wind_speed |-> WindKph(h.wind_speed),
     description |-> h.description]

\* main.py:176: does this hour's condition code count as precipitation
IsPrecipitation(id) == id < PRECIPITATION_LIMIT

\* main.py:188-192
SummaryLine(lo, hi, rain) ==
    [kind |-> "summary", min |-> RoundTemp(lo), max |-> RoundTemp(hi),
     text |-> IF rain THEN "Rain (or snow) expected!" ELSE "No rain expected!"]

\* main.py:205-241
DailyBlock(d, tz, offset) ==
    [kind |-> "day",
     print_date |-> strftime_date(fromtimestamp(LocationTime(d.dt, tz, offset))),
     print_sunrise |-> strftime_HM(fromtimestamp(LocationTime(d.sunrise, tz, offset))),
     print_sunset |-> strftime_HM(fromtimestamp(LocationTime(d.sunset, tz, offset))),
     description |-> d.description,
     wind_speed |-> WindKph(d.wind_speed),
     max |-> RoundTemp(d.temp.max), min |-> RoundTemp(d.temp.min),
     temps |-> <<RoundTemp(d.temp.day), RoundTemp(d.temp.night),
                 RoundTemp(d.temp.eve), RoundTemp(d.temp.morn)>>,
     feels_like |-> <<RoundTemp(d.feels_like.day), RoundTemp(d.feels_like.night),
                      RoundTemp(d.feels_like.eve), RoundTemp(d.feels_like.morn)>>]

\* open(name, "w"): the file exists and is empty; f.write appends a line
Opened(name) == [n \in DOMAIN files \cup {name} |-> IF n = name THEN <<>> ELSE files[n]]
Written(fs, name, line) == [fs EXCEPT ![name] = Append(@, line)]

\* an uncaught exception: the traceback ends the run; a with block closes its file
Raise(exception) ==
    /\ pc' = "error"
    /\ error' = exception
    /\ f' = NoFile

(***************************************************************************)
(* The script                                                              *)
(***************************************************************************)
\* a run started at one of the instants of times
InitAt(times) ==
    /\ pc = "start"
    /\ error = "none"
    /\ now \in times
    /\ console = <<>>
    /\ \E c \in Configurations : api_file = c[1] /\ locations_file = c[2]
    /\ SYSTEM_TIME_UTC_OFFSET = CET_OFFSET
    /\ start_time = 0
    /\ finish_time = 0
    /\ api_id = {}
    /\ locations = <<>>
    /\ file_name_prefix = 0
    /\ k = 0
    /\ gets = <<>>
    /\ response = NoResponse
    /\ api_data = NoPayload
    /\ files_generated_time = <<>>
    /\ UTC_hours_literal = Unset
    /\ files = <<>>
    /\ f = NoFile
    /\ rain_or_snow_predicted = FALSE
    /\ min_temp = 0
    /\ max_temp = 0
    /\ i = 0

\* main.py:88-99
Startup ==
    /\ pc = "start"
    /\ SYSTEM_TIME_UTC_OFFSET' =
          IF tm_isdst(now) # 0 THEN SYSTEM_TIME_UTC_OFFSET + DST_SHIFT
          ELSE SYSTEM_TIME_UTC_OFFSET
    /\ start_time' = now + SYSTEM_TIME_UTC_OFFSET'
    /\ console' = console \o <<Printed(StartBanner, <<>>),
                               Printed("Start time:  ", strftime_HMS(start_time'))>>
    /\ pc' = "load_api"
    /\ UNCHANGED <<error, now, api_file, locations_file, finish_time, api_id,
                   locations, file_name_prefix, k, gets, response, api_data,
                   files_generated_time, UTC_hours_literal, files, f,
                   rain_or_snow_predicted, min_temp, max_temp, i>>

\* main.py:102-103
LoadApiData ==
    /\ pc = "load_api"
    /\ \/ /\ api_file.status = "missing"
          /\ Raise("FileNotFoundError")
          /\ UNCHANGED api_id
       \/ /\ api_file.status = "malformed"
          /\ Raise("JSONDecodeError")
          /\ UNCHANGED api_id
       \/ /\ api_file.status = "ok"
          /\ api_id' = api_file.keys
          /\ pc' = "load_locations"
          /\ UNCHANGED <<error, f>>
    /\ UNCHANGED <<now, console, api_file, locations_file, SYSTEM_TIME_UTC_OFFSET,
                   start_time, finish_time, locations, file_name_prefix, k, gets,
                   response, api_data, files_generated_time, UTC_hours_literal, files,
                   rain_or_snow_predicted, min_temp, max_temp, i>>

\* main.py:107-108
LoadLocations ==
    /\ pc = "load_locations"
    /\ \/ /\ locations_file.status = "missing"
          /\ Raise("FileNotFoundError")
          /\ UNCHANGED locations
       \/ /\ locations_file.status = "malformed"
          /\ Raise("JSONDecodeError")
          /\ UNCHANGED locations
       \/ /\ locations_file.status = "ok"
          /\ locations' = locations_file.list
          /\ pc' = "prefix"
          /\ UNCHANGED <<error, f>>
    /\ UNCHANGED <<now, console, api_file, locations_file, SYSTEM_TIME_UTC_OFFSET,
                   start_time, finish_time, api_id, file_name_prefix, k, gets,
                   response, api_data, files_generated_time, UTC_hours_literal, files,
                   rain_or_snow_predicted, min_temp, max_temp, i>>

\* main.py:112-114
MakeFileNamePrefix ==
    /\ pc = "prefix"
    /\ file_name_prefix' = strftime_date(datetime_now)
    /\ pc' = "for_location"
    /\ UNCHANGED <<error, now, console, api_file, locations_file,
                   SYSTEM_TIME_UTC_OFFSET, start_time, finish_time, api_id,
                   locations, k, gets, response, api_data, files_generated_time,
                   UTC_hours_literal, files, f, rain_or_snow_predicted, min_temp,
                   max_temp, i>>

\* main.py:117: the next entry of locations, or the end of the loop
ForLocation ==
    /\ pc = "for_location"
    /\ pc' = IF k < Len(locations) THEN "parameters" ELSE "finish"
    /\ UNCHANGED <<error, now, console, api_file, locations_file,
                   SYSTEM_TIME_UTC_OFFSET, start_time, finish_time, api_id,
                   locations, file_name_prefix, k, gets, response, api_data,
                   files_generated_time, UTC_hours_literal, files, f,
                   rain_or_snow_predicted, min_temp, max_temp, i>>

\* the keys main.py:120-128 look up before the request goes out
ParameterKeysPresent ==
    /\ {"Latitude", "Longitude", "Language"} \subseteq location.keys
    /\ {"api_key", "owm_api_url"} \subseteq api_id

\* main.py:120-128: api_parameters and the URL
BuildParameters ==
    /\ pc = "parameters"
    /\ \/ /\ ~ParameterKeysPresent
          /\ Raise("KeyError")
       \/ /\ ParameterKeysPresent
          /\ pc' = "get"
          /\ UNCHANGED <<error, f>>
    /\ UNCHANGED <<now, console, api_file, locations_file, SYSTEM_TIME_UTC_OFFSET,
                   start_time, finish_time, api_id, locations, file_name_prefix,
                   k, gets, response, api_data, files_generated_time, UTC_hours_literal,
                   files, rain_or_snow_predicted, min_temp, max_temp, i>>

\* a slip of main.py:130: only client errors are raised
raise_for_status_ClientErrorsOnly(status) == 400 <= status /\ status < 500

\* requests' Response.raise_for_status(): 4xx and 5xx raise HTTPError
raise_for_status(status) == 400 <= status /\ status < 600

Request == [location |-> k, lat |-> location.Latitude, lon |-> location.Longitude,
            lang |-> location.Language]

\* main.py:128-131: the blocking GET, raise_for_status and response.json()
Get ==
    /\ pc = "get"
    /\ gets' = Append(gets, Request)
    /\ now' = now + FetchSeconds
    /\ \/ /\ Raise("ConnectionError")
          /\ UNCHANGED api_data
          /\ UNCHANGED response
       \/ \E r \in HttpResponses :
             /\ response' = r
             /\ IF raise_for_status(r.status)
                THEN /\ Raise("HTTPError")
                     /\ UNCHANGED api_data
                ELSE IF r.body # "forecast"
                THEN /\ Raise("JSONDecodeError")
                     /\ UNCHANGED api_data
                ELSE /\ api_data' \in Payloads(now')
                     /\ pc' = "heading"
                     /\ UNCHANGED <<error, f>>
    /\ UNCHANGED <<console, api_file, locations_file, SYSTEM_TIME_UTC_OFFSET,
                   start_time, finish_time, api_id, locations, file_name_prefix,
                   k, files_generated_time, UTC_hours_literal, files,
                   rain_or_snow_predicted, min_temp, max_temp, i>>

\* main.py:135-143: the heading's generated-at time and UTC-offset literal.
\* timedelta(hours=(tz - offset) / 3600) is tz - offset seconds
HeadingValues ==
    /\ pc = "heading"
    /\ files_generated_time' =
          strftime_HM(datetime_now + (api_data.timezone_offset - SYSTEM_TIME_UTC_OFFSET))
    /\ UTC_hours_literal' = HoursLiteral(api_data.timezone_offset)
    /\ pc' = "hourly_open"
    /\ UNCHANGED <<error, now, console, api_file, locations_file,
                   SYSTEM_TIME_UTC_OFFSET, start_time, finish_time, api_id,
                   locations, file_name_prefix, k, gets, response, api_data, files, f,
                   rain_or_snow_predicted, min_temp, max_temp, i>>

\* main.py:146-151
OpenHourly ==
    /\ pc = "hourly_open"
    /\ \/ /\ "Place" \notin location.keys
          /\ Raise("KeyError")
          /\ UNCHANGED files
       \/ /\ "Place" \in location.keys
          /\ LET name == FileName(location.Place, "Hourly")
             IN  /\ f' = name
                 /\ files' = Written(Opened(name), name, Heading("Hourly"))
          /\ pc' = "hourly_start"
          /\ UNCHANGED error
    /\ UNCHANGED <<now, console, api_file, locations_file, SYSTEM_TIME_UTC_OFFSET,
                   start_time, finish_time, api_id, locations, file_name_prefix,
                   k, gets, response, api_data, files_generated_time, UTC_hours_literal,
                   rain_or_snow_predicted, min_temp, max_temp, i>>

\* a slip of main.py:154: the flag is not reset for the location
StartingPrecipitation_Carried == rain_or_snow_predicted

\* main.py:154: the summary starts out dry
StartingPrecipitation == FALSE

\* main.py:154-156
StartHourly ==
    /\ pc = "hourly_start"
    /\ rain_or_snow_predicted' = StartingPrecipitation
    /\ \/ /\ Len(api_data.hourly) = 0
          /\ Raise("IndexError")
          /\ UNCHANGED <<min_temp, max_temp, i>>
       \/ /\ Len(api_data.hourly) > 0
          /\ min_temp' = At(api_data.hourly, 0).temp
          /\ max_temp' = At(api_data.hourly, 0).temp
          /\ i' = 0
          /\ pc' = "hourly_loop"
          /\ UNCHANGED <<error, f>>
    /\ UNCHANGED <<now, console, api_file, locations_file, SYSTEM_TIME_UTC_OFFSET,
                   start_time, finish_time, api_id, locations, file_name_prefix,
                   k, gets, response, api_data, files_generated_time, UTC_hours_literal,
                   files>>

\* a slip of main.py:176-177: the flag follows the hour at hand
NextPrecipitation_LastHourDecides(flag, id) == IsPrecipitation(id)

\* a slip of main.py:182-183: the comparison of the minimum, copied
NextMax_ComparisonCopied(hi, temp) == IF temp < hi THEN temp ELSE hi

\* main.py:176-177
NextPrecipitation(flag, id) == IF IsPrecipitation(id) THEN TRUE ELSE flag
\* main.py:180-181
NextMin(lo, temp) == IF temp < lo THEN temp ELSE lo
\* main.py:182-183
NextMax(hi, temp) == IF temp > hi THEN temp ELSE hi

\* a slip of main.py:159: range(0, HOURS - 1)
HourlyRange_OneShort == 0..(HOURS - 2)
\* a slip of main.py:203: range(0, DAYS - 1)
DailyRange_OneShort == 0..(DAYS - 2)

\* main.py:159: range(0, HOURS)
HourlyRange == 0..(HOURS - 1)
\* main.py:203: range(0, DAYS)
DailyRange == 0..(DAYS - 1)

\* main.py:159-183: one pass of the hourly loop, for hour i
\* (i is the index the loop takes next; the range is exhausted when it
\* has left HourlyRange)
HourlyHour ==
    /\ pc = "hourly_loop"
    /\ i \in HourlyRange
    /\ \/ /\ i >= Len(api_data.hourly)
          /\ Raise("IndexError")
          /\ UNCHANGED <<files, rain_or_snow_predicted, min_temp, max_temp, i>>
       \/ /\ i < Len(api_data.hourly)
          /\ LET h == At(api_data.hourly, i)
             IN  /\ files' = Written(files, f,
                        HourlyBlock(h, api_data.timezone_offset, SYSTEM_TIME_UTC_OFFSET))
                 /\ rain_or_snow_predicted' = NextPrecipitation(rain_or_snow_predicted, h.id)
                 /\ min_temp' = NextMin(min_temp, h.temp)
                 /\ max_temp' = NextMax(max_temp, h.temp)
          /\ i' = i + 1
          /\ UNCHANGED <<pc, error, f>>
    /\ UNCHANGED <<now, console, api_file, locations_file, SYSTEM_TIME_UTC_OFFSET,
                   start_time, finish_time, api_id, locations, file_name_prefix,
                   k, gets, response, api_data, files_generated_time, UTC_hours_literal>>

\* main.py:187-192 and the end of the with block
HourlySummary ==
    /\ pc = "hourly_loop"
    /\ i \notin HourlyRange
    /\ files' = Written(files, f, SummaryLine(min_temp, max_temp, rain_or_snow_predicted))
    /\ f' = NoFile
    /\ pc' = "daily_open"
    /\ UNCHANGED <<error, now, console, api_file, locations_file,
                   SYSTEM_TIME_UTC_OFFSET, start_time, finish_time, api_id,
                   locations, file_name_prefix, k, gets, response, api_data,
                   files_generated_time, UTC_hours_literal,
                   rain_or_snow_predicted, min_temp, max_temp, i>>

\* main.py:195-200
OpenDaily ==
    /\ pc = "daily_open"
    /\ LET name == FileName(location.Place, "Daily")
       IN  /\ f' = name
           /\ files' = Written(Opened(name), name, Heading("Daily"))
    /\ i' = 0
    /\ pc' = "daily_loop"
    /\ UNCHANGED <<error, now, console, api_file, locations_file,
                   SYSTEM_TIME_UTC_OFFSET, start_time, finish_time, api_id,
                   locations, file_name_prefix, k, gets, response, api_data,
                   files_generated_time, UTC_hours_literal,
                   rain_or_snow_predicted, min_temp, max_temp>>

\* main.py:203-241: one pass of the daily loop, for day i
DailyDay ==
    /\ pc = "daily_loop"
    /\ i \in DailyRange
    /\ \/ /\ i >= Len(api_data.daily)
          /\ Raise("IndexError")
          /\ UNCHANGED <<files, i>>
       \/ /\ i < Len(api_data.daily)
          /\ files' = Written(files, f,
                DailyBlock(At(api_data.daily, i), api_data.timezone_offset,
                           SYSTEM_TIME_UTC_OFFSET))
          /\ i' = i + 1
          /\ UNCHANGED <<pc, error, f>>
    /\ UNCHANGED <<now, console, api_file, locations_file, SYSTEM_TIME_UTC_OFFSET,
                   start_time, finish_time, api_id, locations, file_name_prefix,
                   k, gets, response, api_data, files_generated_time, UTC_hours_literal,
                   rain_or_snow_predicted, min_temp, max_temp>>

\* the end of the daily with block and of this pass of the for loop
CloseDaily ==
    /\ pc = "daily_loop"
    /\ i \notin DailyRange
    /\ f' = NoFile
    /\ k' = k + 1
    /\ pc' = "for_location"
    /\ UNCHANGED <<error, now, console, api_file, locations_file,
                   SYSTEM_TIME_UTC_OFFSET, start_time, finish_time, api_id,
                   locations, file_name_prefix, gets, response, api_data,
                   files_generated_time, UTC_hours_literal, files,
                   rain_or_snow_predicted, min_temp, max_temp, i>>

\* main.py:247-257
Finish ==
    /\ pc = "finish"
    /\ finish_time' = now + SYSTEM_TIME_UTC_OFFSET
    /\ console' = console \o <<Printed("Finish time: ", strftime_HMS(finish_time')),
                               Printed("Elapsed time: ", <<finish_time' - start_time>>),
                               Printed(FinishBanner, <<>>)>>
    /\ pc' = "done"
    /\ UNCHANGED <<error, now, api_file, locations_file, SYSTEM_TIME_UTC_OFFSET,
                   start_time, api_id, locations, file_name_prefix, k, gets,
                   response, api_data, files_generated_time, UTC_hours_literal, files, f,
                   rain_or_snow_predicted, min_temp, max_temp, i>>

Next ==
    \/ Startup
    \/ LoadApiData
    \/ LoadLocations
    \/ MakeFileNamePrefix
    \/ ForLocation
    \/ BuildParameters
    \/ Get
    \/ HeadingValues
    \/ OpenHourly
    \/ StartHourly
    \/ HourlyHour
    \/ HourlySummary
    \/ OpenDaily
    \/ DailyDay
    \/ CloseDaily
    \/ Finish

Init == InitAt(StartTimes)

Spec == Init /\ [][Next]_vars

\* runs started around the instant the host's clocks go forward: one second
\* before it (the first GET returns after it) and half an hour after it
NearTransitionTimes == {DstBegin - 1, DstBegin + 1800}

InitNearTransition == InitAt(NearTransitionTimes)

SpecNearTransition == InitNearTransition /\ [][Next]_vars

(***************************************************************************)
(* Properties                                                              *)
(***************************************************************************)
\* the report files of the location the loop is at
HourlyFile == files[FileName(location.Place, "Hourly")]
DailyFile == files[FileName(location.Place, "Daily")]
LastLine(file) == file[Len(file)]

\* the hourly scan of the location at hand is over and its summary is written
HourlyReportClosed == pc \in {"daily_open", "daily_loop"}
\* the hourly scan has read its last hour, the summary is not yet written
HourlyScanOver == pc = "hourly_loop" /\ i \notin HourlyRange

\* the temperatures and condition codes of the hours the report covers
WindowTemps == {At(api_data.hourly, n).temp : n \in 0..(HOURS - 1)}
WindowCodes == {At(api_data.hourly, n).id : n \in 0..(HOURS - 1)}

\* C1: for a payload of at least 48 hourly samples, after the hourly scan the
\* precipitation flag is true exactly when one of the first 48 samples has a
\* condition code below 700, and the summary line says "Rain (or snow)
\* expected" exactly when the flag is true.
C1_PrecipitationFlag ==
    /\ (HourlyScanOver /\ Len(api_data.hourly) >= 48) =>
          (rain_or_snow_predicted <=> \E c \in WindowCodes : c < 700)
    /\ (HourlyReportClosed /\ Len(api_data.hourly) >= 48) =>
          /\ rain_or_snow_predicted <=> \E c \in WindowCodes : c < 700
          /\ LastLine(HourlyFile).kind = "summary"
          /\ LastLine(HourlyFile).text = "Rain (or snow) expected!"
                <=> rain_or_snow_predicted
          /\ LastLine(HourlyFile).text = "No rain expected!"
                <=> \A c \in WindowCodes : c >= 700

\* C1 witness: only hour 10 rains (code 501) and the summary announces rain
C1_Witness ==
    /\ HourlyReportClosed
    /\ Len(api_data.hourly) >= 48
    /\ At(api_data.hourly, 10).id = 501
    /\ \A n \in 0..47 : n # 10 => At(api_data.hourly, n).id >= 700
    /\ LastLine(HourlyFile).text = "Rain (or snow) expected!"

\* C2: after the scan of all 48 hours min_temp is at most and max_temp at
\* least every one of the 48 temperatures, and both are among them, so the
\* pair is the minimum and maximum of the 48 values in whatever order they
\* come; during the scan min_temp <= max_temp, min_temp never rises and
\* max_temp never falls.
C2_ScanResult ==
    HourlyScanOver =>
        /\ \A t \in WindowTemps : min_temp <= t /\ t <= max_temp
        /\ min_temp \in WindowTemps
        /\ max_temp \in WindowTemps

C2_ScanStep ==
    (pc = "hourly_loop" /\ pc' = "hourly_loop") =>
        /\ min_temp' <= min_temp
        /\ max_temp' >= max_temp

C2_MinMax ==
    /\ [](C2_ScanResult /\ (pc = "hourly_loop" => min_temp <= max_temp))
    /\ [][C2_ScanStep]_vars

\* C2 witness: the scan is over and has both lowered the minimum and raised
\* the maximum it started with
C2_Witness ==
    /\ HourlyScanOver
    /\ min_temp < At(api_data.hourly, 0).temp
    /\ max_temp > At(api_data.hourly, 0).temp

\* the location's wall clock at instant t: t + tz on the calendar
LocationWallClock(t, tz) == t + tz

\* the hourly / daily loop is at work on the file it has open
InHourlyLoop == pc = "hourly_loop"
InDailyLoop == pc = "daily_loop"

\* C3: every rendered sample time (hourly dt, daily dt, sunrise, sunset) is
\* the location's wall-clock time t + tz, whatever the host's daylight-saving
\* state at the sample's instant; with tz = -3600 and a host offset of 3600
\* it is two hours earlier than t rendered with the host offset alone.
C3_RenderedIsLocationTime ==
    LET tz == api_data.timezone_offset IN
    /\ InHourlyLoop =>
          \A n \in 0..(i - 1) :
              LET t == At(api_data.hourly, n).dt
                  shown == HourlyFile[n + 2].print_time
              IN  /\ shown = strftime_datetime(LocationWallClock(t, tz))
                  /\ (tz = -3600 /\ SYSTEM_TIME_UTC_OFFSET = 3600) =>
                        shown = strftime_datetime((t + SYSTEM_TIME_UTC_OFFSET) - 7200)
    /\ InDailyLoop =>
          \A n \in 0..(i - 1) :
              LET d == At(api_data.daily, n)
                  shown == DailyFile[n + 2]
              IN  /\ shown.print_date = strftime_date(LocationWallClock(d.dt, tz))
                  /\ shown.print_sunrise = strftime_HM(LocationWallClock(d.sunrise, tz))
                  /\ shown.print_sunset = strftime_HM(LocationWallClock(d.sunset, tz))

\* the UTC-offset number and unit word of a heading
Literal(heading) == <<heading.utc_offset, heading.unit>>
\* n is tz / 3600 rounded to a nearest whole number
IsRounded(n, tz) == 2 * abs(tz - 3600 * n) <= 3600

\* C4: the heading's UTC-offset literal shows tz / 3600 rounded to the
\* nearest whole number, followed by "hour" exactly when abs(tz) = 3600 and
\* by "hours" otherwise; the daily heading carries the same literal as the
\* hourly heading.
C4_UtcOffsetLiteral ==
    LET tz == api_data.timezone_offset IN
    /\ pc \in {"hourly_start", "hourly_loop", "daily_open", "daily_loop"} =>
          /\ HourlyFile[1].kind = "heading"
          /\ IsRounded(HourlyFile[1].utc_offset, tz)
          /\ HourlyFile[1].unit = "hour" <=> (tz = 3600 \/ tz = -3600)
          /\ HourlyFile[1].unit = "hours" <=> (tz # 3600 /\ tz # -3600)
          /\ tz = -3600 => Literal(HourlyFile[1]) = <<-1, "hour">>
    /\ InDailyLoop =>
          /\ DailyFile[1].kind = "heading"
          /\ Literal(DailyFile[1]) = Literal(HourlyFile[1])

\* C4 witness: an offset of 45 minutes is shown as "1 hours" in both headings
C4_Witness ==
    /\ InDailyLoop
    /\ api_data.timezone_offset = 2700
    /\ Literal(HourlyFile[1]) = <<1, "hours">>
    /\ Literal(DailyFile[1]) = <<1, "hours">>

\* the payload at hand has all the samples the script reads
WellFormed == Len(api_data.hourly) >= 48 /\ Len(api_data.daily) >= 8

\* the pass of the for loop for location k - 1 has just ended
LocationDone == pc = "for_location" /\ k > 0
DoneLocation == At(locations, k - 1)

\* the lines of a file from line a to line b
Lines(file, a, b) == [n \in 1..(b - a + 1) |-> file[a + n - 1]]

\* C5: for a payload with at least 48 hourly and 8 daily samples the hourly
\* report is the heading, the 48 dated blocks of samples 0..47 in payload
\* order and then one summary line; the daily report is the heading and the 8
\* dated blocks of samples 0..7 in payload order, and no summary.
C5_ReportShape ==
    LET tz == api_data.timezone_offset
        off == SYSTEM_TIME_UTC_OFFSET
    IN
    /\ (HourlyReportClosed /\ WellFormed) =>
          /\ Len(HourlyFile) = 1 + 48 + 1
          /\ HourlyFile[1].kind = "heading"
          /\ \A n \in 0..47 :
                HourlyFile[n + 2] = HourlyBlock(At(api_data.hourly, n), tz, off)
          /\ HourlyFile[50].kind = "summary"
    /\ (LocationDone /\ WellFormed) =>
          LET daily == files[FileName(DoneLocation.Place, "Daily")]
              hourly == files[FileName(DoneLocation.Place, "Hourly")]
          IN  /\ Len(daily) = 1 + 8
              /\ daily[1].kind = "heading"
              /\ \A n \in 0..7 :
                    daily[n + 2] = DailyBlock(At(api_data.daily, n), tz, off)
              /\ Len(hourly) = 50 /\ hourly[50].kind = "summary"

\* C5 witness: a location is done whose payload had more samples than are
\* read, and the block of hour 47 closes the hourly blocks
C5_Witness ==
    /\ LocationDone
    /\ Len(api_data.hourly) > 48
    /\ Len(api_data.daily) > 8
    /\ LET hourly == files[FileName(DoneLocation.Place, "Hourly")]
       IN  /\ hourly[49] = HourlyBlock(At(api_data.hourly, 47),
                                       api_data.timezone_offset,
                                       SYSTEM_TIME_UTC_OFFSET)
           /\ hourly[50].kind = "summary"
    /\ Len(files[FileName(DoneLocation.Place, "Daily")]) = 9

\* the number of dated blocks of a report file, and whether it has a summary
Blocks(file) == Cardinality({n \in DOMAIN file : file[n].kind \in {"hour", "day"}})
HasSummary(file) == \E n \in DOMAIN file : file[n].kind = "summary"

\* a payload has arrived for the location at hand and lacks samples
ShortPayload ==
    /\ api_data # NoPayload
    /\ Len(api_data.hourly) < 48 \/ Len(api_data.daily) < 8

\* C6: with fewer than 48 hourly or fewer than 8 daily samples the run ends
\* in an error and never reaches the finish banner, and it leaves no hourly
\* file of fewer than 48 dated blocks or without its summary line and no
\* daily file of fewer than 8 dated blocks for that location.
C6_ShortPayloadFailsCleanly ==
    (ShortPayload /\ pc \notin {"get", "heading", "hourly_open", "hourly_start",
                               "hourly_loop", "daily_open", "daily_loop"}) =>
        /\ pc = "error"
        /\ LET hourly == FileName(location.Place, "Hourly")
               daily == FileName(location.Place, "Daily")
           IN  /\ hourly \in DOMAIN files =>
                      Blocks(files[hourly]) = 48 /\ HasSummary(files[hourly])
               /\ daily \in DOMAIN files => Blocks(files[daily]) = 8

\* the GET requests issued for the location of index j
GetsFor(j) == {n \in DOMAIN gets : gets[n].location = j}

\* the fetch for the location at hand has failed: the transport raised, or
\* the response received carries a status outside 200..299
NetworkFailed ==
    \/ error = "ConnectionError"
    \/ response # NoResponse /\ (response.status < 200 \/ response.status > 299)

BannerPrinted == \E n \in DOMAIN console : console[n].text = FinishBanner

\* the places of the locations before the one at hand
EarlierPlaces == {At(locations, j).Place : j \in 0..(k - 1)}

C7_FailedState ==
    NetworkFailed =>
        /\ pc = "error"
        /\ error \in {"ConnectionError", "HTTPError", "JSONDecodeError"}
        /\ (response # NoResponse /\ response.status >= 400) => error = "HTTPError"
        /\ Cardinality(GetsFor(k)) = 1
        /\ \A j \in (k + 1)..(Len(locations) - 1) : GetsFor(j) = {}
        /\ f = NoFile
        /\ location.Place \notin EarlierPlaces =>
              \A name \in DOMAIN files : name[2] # location.Place
        /\ ~BannerPrinted

C7_FailingStep ==
    /\ (~NetworkFailed /\ NetworkFailed') => files' = files
    /\ NetworkFailed => UNCHANGED <<gets, files, f, console, pc>>

\* C7: a failed fetch for location k (connection error or non-success
\* status, a 4xx or 5xx status as an HTTPError) ends the run in an uncaught
\* exception: one GET was issued for location k, none for a later
\* location, no file is open or was written for location k, the finish
\* banner is never printed, and the files of the locations before k stay as
\* they were.
C7_NetworkFailureIsFatal == []C7_FailedState /\ [][C7_FailingStep]_vars

\* C7 witness: the second location's fetch came back with status 500 after
\* the first location's reports were written
C7_Witness ==
    /\ pc = "error"
    /\ response.status = 500
    /\ k = 1
    /\ Len(gets) = 2
    /\ DOMAIN files = {FileName("Kesten", "Hourly"), FileName("Kesten", "Daily")}

\* the configuration cannot be loaded in full
ConfigurationFails ==
    \/ api_file.status # "ok"
    \/ ~(ApiKeys \subseteq api_file.keys)
    \/ locations_file.status # "ok"
    \/ \E n \in DOMAIN locations_file.list :
          ~(LocationKeys \subseteq locations_file.list[n].keys)

\* C8: a configuration that cannot be loaded in full (a file missing or
\* malformed, a key missing in api_data.json or in any location entry) aborts
\* the run before any GET is issued: no run with such a configuration ever
\* issues a GET.
C8_ConfigurationFailsBeforeAnyGet ==
    ConfigurationFails => gets = <<>>

\* the script has computed its run-wide values and is past them
PastStartup == pc # "start"
PastPrefix == pc \notin {"start", "load_api", "load_locations", "prefix"}

SetMin(S) == CHOOSE x \in S : \A y \in S : x <= y
SetMax(S) == CHOOSE x \in S : \A y \in S : x >= y

\* the summary line the payload at hand calls for, from the payload alone;
\* Nearest(t) is t tenths rounded to a whole number, ties to even
Nearest(t) ==
    CHOOSE n \in -100..100 :
        /\ 2 * abs(t - 10 * n) <= 10
        /\ 2 * abs(t - 10 * n) = 10 => n % 2 = 0
SummaryOfPayload ==
    [kind |-> "summary",
     min |-> Nearest(SetMin(WindowTemps)),
     max |-> Nearest(SetMax(WindowTemps)),
     text |-> IF \E c \in WindowCodes : c < 700
              THEN "Rain (or snow) expected!" ELSE "No rain expected!"]

C9_State ==
    /\ (pc = "hourly_loop" /\ i = 0) =>
          /\ rain_or_snow_predicted = FALSE
          /\ min_temp = At(api_data.hourly, 0).temp
          /\ max_temp = At(api_data.hourly, 0).temp
    /\ HourlyReportClosed => LastLine(HourlyFile) = SummaryOfPayload

C9_Step ==
    /\ PastStartup => SYSTEM_TIME_UTC_OFFSET' = SYSTEM_TIME_UTC_OFFSET
    /\ PastPrefix => file_name_prefix' = file_name_prefix

\* C9: nothing mutable crosses from one location to the next: the host
\* offset and the file-name prefix keep the value computed before the first
\* location, each hourly scan starts with the flag false and min/max at the
\* location's own sample 0, and the summary line written for a location is
\* the one its own payload calls for.
C9_NoStateAcrossLocations == []C9_State /\ [][C9_Step]_vars

\* C9 witness: the first location's summary announced rain, the second
\* location's payload is dry and its summary says so
C9_Witness ==
    /\ HourlyReportClosed
    /\ k = 1
    /\ LastLine(files[FileName(At(locations, 0).Place, "Hourly")]).text
          = "Rain (or snow) expected!"
    /\ \A c \in WindowCodes : c >= 700
    /\ LastLine(HourlyFile).text = "No rain expected!"

\* a report file that is complete
CompleteHourly(file) ==
    /\ Len(file) = 50
    /\ file[1].kind = "heading"
    /\ \A n \in 2..49 : file[n].kind = "hour"
    /\ file[50].kind = "summary"
CompleteDaily(file) ==
    /\ Len(file) = 9
    /\ file[1].kind = "heading"
    /\ \A n \in 2..9 : file[n].kind = "day"

\* both reports of the location of index j are on disk and complete
Reported(j) ==
    LET hourly == FileName(At(locations, j).Place, "Hourly")
        daily == FileName(At(locations, j).Place, "Daily")
    IN  /\ hourly \in DOMAIN files /\ CompleteHourly(files[hourly])
        /\ daily \in DOMAIN files /\ CompleteDaily(files[daily])

C10_State ==
    \* the GETs go out in configured order, one per location
    /\ \A n \in DOMAIN gets : gets[n].location = n - 1
    \* at most one file is open, and only between the fetch and the end of
    \* the location's pass
    /\ f # NoFile => f \in {FileName(location.Place, "Hourly"),
                            FileName(location.Place, "Daily")}
    /\ (f # NoFile /\ f = FileName(location.Place, "Daily")) =>
          CompleteHourly(HourlyFile)
    \* at the finish banner every location was fetched once and is reported
    /\ BannerPrinted =>
          \A j \in 0..(Len(locations) - 1) :
              Cardinality(GetsFor(j)) = 1 /\ Reported(j)

C10_Step ==
    \* a fetch starts only with no file open and every earlier location
    \* reported in full
    /\ gets' # gets =>
          /\ f = NoFile
          /\ Len(gets) = k
          /\ \A j \in 0..(k - 1) : Reported(j)
    \* the daily file is opened only after the hourly file is closed
    /\ (f' # f /\ f' # NoFile) => f = NoFile

\* C10: locations are processed one at a time in configured order (fetch,
\* hourly file opened, written and closed, daily file opened, written and
\* closed, then the next fetch), and when the finish banner is printed every
\* configured location has been fetched exactly once and has a complete
\* hourly file (48 blocks and the summary) and a complete daily file (8
\* blocks).
C10_SequentialAndComplete == []C10_State /\ [][C10_Step]_vars

\* C10 witness: a run over two locations has printed the finish banner
C10_Witness ==
    /\ pc = "done"
    /\ BannerPrinted
    /\ Len(locations) = 2
    /\ Len(gets) = 2
    /\ Cardinality(DOMAIN files) = 4

\* the headings of the location at hand are being or have been written
\* (the host clock stands still from HeadingValues to the end of the pass)
HourlyHeadingWritten == pc \in {"hourly_start", "hourly_loop", "daily_open", "daily_loop"}

\* the sample-time conversion of main.py:162-165 applied to the instant t,
\* as the clock fields of its rendering
SampleConversionHM(t) ==
    strftime_HM(fromtimestamp(LocationTime(t, api_data.timezone_offset,
                                           SYSTEM_TIME_UTC_OFFSET)))

\* C11: the generated-at time of the headings (the host's local clock reading
\* plus (tz - h) / 3600 hours) is the HH:MM that the sample-time conversion
\* (now + tz - h through the host's epoch-to-calendar conversion) gives for
\* the current instant, and the hourly and the daily heading carry the same
\* generated-at time.
C11_OffsetPathsAgree ==
    /\ pc = "hourly_open" => files_generated_time = SampleConversionHM(now)
    /\ HourlyHeadingWritten =>
          /\ HourlyFile[1].generated = files_generated_time
          /\ HourlyFile[1].generated = SampleConversionHM(now)
    /\ InDailyLoop => DailyFile[1].generated = HourlyFile[1].generated

====
